---- MODULE Spec2Model ----
(***************************************************************************)
(* Model of chstan/voice-notes: the transcript builder of                  *)
(* voice_notes/transcript.py (Transcript.__iadd__, items_by_speaker,       *)
(* to_block, to_string), the pipeline of voice_notes/voice_note.py         *)
(* (VoiceNote.to_block, synchronize and its steps under bump_status), the  *)
(* TranscriptionJob of voice_notes/transcription.py, the page lookups of   *)
(* voice_notes/notion/search.py and the loops of scripts/import_all.py.    *)
(*                                                                         *)
(* Times are integers counted in ticks, TicksPerSecond ticks to the        *)
(* second, so that flooring a start time to whole seconds is not the       *)
(* identity.  An optional value is <<>> (Python's None) or <<v>>.          *)
(* A text is the sequence of its pieces: a token's content or " ".         *)
(***************************************************************************)
EXTENDS Integers, Sequences, FiniteSets, TLC

\* ------------------------------------------------------------------ bounds
MaxTokens == 3
MaxSegs == 2
TicksPerSecond == 2
MaxTurns == 97
MaxSyncs == 3
MaxResets == 1
MaxPages == 2
MaxPolls == 4
MaxNotes == 2

\* ------------------------------------------------------- program constants
\* Transcript.timestamp_every, in seconds.
TimestampEvery == 60

\* VoiceNoteStatus
Ingress == 0
Local == 10
S3 == 20
Transcribed == 30
Notion == 40
Evicted == 50

\* The number of groups above which VoiceNote.to_block joins the speakers.
SpeakerGroupLimit == 95

None == <<>>
Some(v) == <<v>>
Sec(s) == s * TicksPerSecond

Last(s) == s[Len(s)]
Front(s) == SubSeq(s, 1, Len(s) - 1)

\* ------------------------------------------------------------------ inputs
Speakers == {"S0", "S1"}
SegEnds == {Sec(10), Sec(70), Sec(131)}
TokenTimes == {0, Sec(10), Sec(30), Sec(65) + 1, Sec(130), Sec(131)}
\* The start times of a punctuation token, which as a rule has none: one
\* past a threshold and inside a segment, one at the end of the last segment.
PunctTimes == {Sec(65) + 1, Sec(131)}
TokenTypes == {"pronunciation", "punctuation"}

\* AWSSegment(index=i, **s): speaker_label already rewritten spk_N -> SN.
AWSSegment(i, start, end, spk) ==
    [index |-> i, start_time |-> start, end_time |-> end, speaker_label |-> spk]

\* The segment lists of the input: sorted by time and contiguous.
SegmentLists ==
    UNION { { [i \in 1..n |->
                 AWSSegment(i - 1,
                            IF i = 1 THEN 0 ELSE f[i - 1][1],
                            f[i][1], f[i][2])] :
              f \in { g \in [1..n -> SegEnds \X Speakers] :
                        \A i \in 1..(n - 1) : g[i][1] < g[i + 1][1] } } :
            n \in 0..MaxSegs }

\* The content of the k-th token of the stream.
Content(k, type) ==
    (IF type = "punctuation" THEN "p" ELSE "w") \o ToString(k)

\* AWSTranscriptItem(**token); segment is set by Transcript.__iadd__.
AWSTranscriptItem(type, start, content) ==
    [type |-> type, start_time |-> start, content |-> content]

StartTimes(type) ==
    {None} \cup { Some(v) : v \in IF type = "punctuation" THEN PunctTimes
                                  ELSE TokenTimes }

Tokens(k) ==
    UNION { { AWSTranscriptItem(ty, st, Content(k, ty)) :
                st \in StartTimes(ty) } : ty \in TokenTypes }

\* ------------------------------------------------------- transcript items
TextItem(text, speaker, segment_index) ==
    [kind |-> "TextItem", text |-> text, speaker |-> speaker,
     segment_index |-> segment_index]

\* Mutant of Timestamp_from_start_time: rounds up instead of down.
Timestamp_from_start_time_Ceil(start_time) ==
    [kind |-> "Timestamp",
     delta |-> (start_time + TicksPerSecond - 1) \div TicksPerSecond]

\* Timestamp.from_start_time: the start time floored to whole seconds.
Timestamp_from_start_time(start_time) ==
    [kind |-> "Timestamp", delta |-> start_time \div TicksPerSecond]

IsText(item) == item.kind = "TextItem"

\* Mutant of accepts: TextItem keeps the accepts of TranscriptItem, which
\* accepts nothing.
accepts_Base(item, seg) == FALSE

\* Mutant of accepts: the segment index is not compared.
accepts_SpeakerOnly(item, seg) ==
    IsText(item) /\ seg.speaker_label = item.speaker

\* TranscriptItem.accepts / TextItem.accepts, token.segment = seg.
accepts(item, seg) ==
    IF ~IsText(item) THEN FALSE
    ELSE IF seg.speaker_label # item.speaker THEN FALSE
    ELSE IF seg.index # item.segment_index THEN FALSE
    ELSE TRUE

\* Mutant of TextItem_iadd: a space before every token, punctuation too.
TextItem_iadd_AlwaysSpace(item, token) ==
    [item EXCEPT !.text = @ \o <<" ", token.content>>]

\* TextItem.__iadd__ with an AWSTranscriptItem.
TextItem_iadd(item, token) ==
    [item EXCEPT !.text =
        (IF token.type # "punctuation" THEN @ \o <<" ">> ELSE @)
            \o <<token.content>>]

\* ------------------------------------------------------ Transcript.__iadd__
\* Mutant of AdvanceCursor: also leaves a segment that ends exactly when the
\* token starts (<= for <).
RECURSIVE AdvanceCursor_Inclusive(_, _, _)
AdvanceCursor_Inclusive(segs, idx, start) ==
    IF idx >= Len(segs) THEN [exc |-> "IndexError", idx |-> idx]
    ELSE IF start = None THEN [exc |-> "TypeError", idx |-> idx]
    ELSE IF segs[idx + 1].end_time <= start[1]
         THEN AdvanceCursor_Inclusive(segs, idx + 1, start)
         ELSE [exc |-> "none", idx |-> idx]

\* The while loop of __iadd__: the cursor it ends on, or the exception.
RECURSIVE AdvanceCursor(_, _, _)
AdvanceCursor(segs, idx, start) ==
    IF idx >= Len(segs) THEN [exc |-> "IndexError", idx |-> idx]
    ELSE IF start = None THEN [exc |-> "TypeError", idx |-> idx]
    ELSE IF segs[idx + 1].end_time < start[1]
         THEN AdvanceCursor(segs, idx + 1, start)
         ELSE [exc |-> "none", idx |-> idx]

\* A transcript object.
TranscriptObj(segs, idx, nts, its) ==
    [segments |-> segs, segment_index |-> idx, next_timestamp |-> nts,
     items |-> its]

\* Whether __iadd__ adds a Timestamp for the token.
WantsTimestamp(t, token) ==
    /\ token.start_time # None
    /\ token.start_time[1] # 0
    /\ token.start_time[1] > Sec(t.next_timestamp)

\* Mutant of AddItems: the Timestamp is put after the token's text instead
\* of before it.
AddItems_StampAfter(t, token, seg) ==
    LET stamped == WantsTimestamp(t, token)
        nts == IF stamped THEN t.next_timestamp + TimestampEvery
               ELSE t.next_timestamp
        its1 == IF t.items # <<>> /\ accepts(Last(t.items), seg)
                THEN [t.items EXCEPT ![Len(t.items)] = TextItem_iadd(@, token)]
                ELSE Append(t.items, TextItem(<<token.content>>,
                                              seg.speaker_label, seg.index))
        its2 == IF stamped
                THEN Append(its1,
                            Timestamp_from_start_time(token.start_time[1]))
                ELSE its1
    IN  [t EXCEPT !.items = its2, !.next_timestamp = nts]

\* Mutant of AddItems: a new TextItem keeps the default segment_index, 0.
AddItems_DefaultIndex(t, token, seg) ==
    LET stamped == WantsTimestamp(t, token)
        its1 == IF stamped
                THEN Append(t.items,
                            Timestamp_from_start_time(token.start_time[1]))
                ELSE t.items
        nts == IF stamped THEN t.next_timestamp + TimestampEvery
               ELSE t.next_timestamp
        its2 == IF its1 # <<>> /\ accepts(Last(its1), seg)
                THEN [its1 EXCEPT ![Len(its1)] = TextItem_iadd(@, token)]
                ELSE Append(its1, TextItem(<<token.content>>,
                                           seg.speaker_label, 0))
    IN  [t EXCEPT !.items = its2, !.next_timestamp = nts]

\* Lines 218-231 of __iadd__, the cursor being on segment seg.
AddItems(t, token, seg) ==
    LET stamped == WantsTimestamp(t, token)
        its1 == IF stamped
                THEN Append(t.items,
                            Timestamp_from_start_time(token.start_time[1]))
                ELSE t.items
        nts == IF stamped THEN t.next_timestamp + TimestampEvery
               ELSE t.next_timestamp
        its2 == IF its1 # <<>> /\ accepts(Last(its1), seg)
                THEN [its1 EXCEPT ![Len(its1)] = TextItem_iadd(@, token)]
                ELSE Append(its1, TextItem(<<token.content>>,
                                           seg.speaker_label, seg.index))
    IN  [t EXCEPT !.items = its2, !.next_timestamp = nts]

\* Mutant of Transcript_iadd: the search for the segment starts again at the
\* first segment for every token.
Transcript_iadd_Rescan(t, token) ==
    LET adv == IF token.type # "punctuation"
               THEN AdvanceCursor(t.segments, 0, token.start_time)
               ELSE [exc |-> "none", idx |-> t.segment_index]
        t1 == [t EXCEPT !.segment_index = adv.idx]
    IN  IF adv.exc # "none" THEN [t |-> t1, exc |-> adv.exc]
        ELSE IF t1.segment_index >= Len(t1.segments)
             THEN [t |-> t1, exc |-> "IndexError"]
        ELSE [t |-> AddItems(t1, token, t1.segments[t1.segment_index + 1]),
              exc |-> "none"]

\* Mutant of Transcript_iadd: a token past the last segment is put under
\* the last segment instead of raising.
Transcript_iadd_Clamp(t, token) ==
    LET adv == IF token.type # "punctuation"
               THEN AdvanceCursor(t.segments, t.segment_index, token.start_time)
               ELSE [exc |-> "none", idx |-> t.segment_index]
        idx == IF adv.idx >= Len(t.segments) /\ t.segments # <<>>
               THEN Len(t.segments) - 1 ELSE adv.idx
        t1 == [t EXCEPT !.segment_index = idx]
    IN  IF t1.segment_index >= Len(t1.segments)
        THEN [t |-> t1, exc |-> "IndexError"]
        ELSE IF adv.exc = "TypeError" THEN [t |-> t1, exc |-> adv.exc]
        ELSE [t |-> AddItems(t1, token, t1.segments[t1.segment_index + 1]),
              exc |-> "none"]

\* Mutant of Transcript_iadd: a punctuation token that has a start time
\* drives the cursor as a word does.
Transcript_iadd_PunctAdvances(t, token) ==
    LET adv == IF token.type # "punctuation" \/ token.start_time # None
               THEN AdvanceCursor(t.segments, t.segment_index, token.start_time)
               ELSE [exc |-> "none", idx |-> t.segment_index]
        t1 == [t EXCEPT !.segment_index = adv.idx]
    IN  IF adv.exc # "none" THEN [t |-> t1, exc |-> adv.exc]
        ELSE IF t1.segment_index >= Len(t1.segments)
             THEN [t |-> t1, exc |-> "IndexError"]
        ELSE [t |-> AddItems(t1, token, t1.segments[t1.segment_index + 1]),
              exc |-> "none"]

\* Transcript.__iadd__: the transcript afterwards and the exception raised.
Transcript_iadd(t, token) ==
    LET adv == IF token.type # "punctuation"
               THEN AdvanceCursor(t.segments, t.segment_index, token.start_time)
               ELSE [exc |-> "none", idx |-> t.segment_index]
        t1 == [t EXCEPT !.segment_index = adv.idx]
    IN  IF adv.exc # "none" THEN [t |-> t1, exc |-> adv.exc]
        ELSE IF t1.segment_index >= Len(t1.segments)
             THEN [t |-> t1, exc |-> "IndexError"]
        ELSE [t |-> AddItems(t1, token, t1.segments[t1.segment_index + 1]),
              exc |-> "none"]

\* ---------------------------------------------------------- items_by_speaker
\* Mutant of GroupStep: a Timestamp closes the current group as well.
GroupStep_BreakAtStamp(st, item) ==
    LET spk == IF IsText(item) /\ st.current_speaker = None
               THEN Some(item.speaker) ELSE st.current_speaker
        will_append == IsText(item) /\ spk = Some(item.speaker)
    IN  IF will_append
        THEN [by_speaker |-> st.by_speaker,
              current |-> Append(st.current, item),
              current_speaker |-> spk,
              i |-> st.i + 1]
        ELSE [by_speaker |-> Append(st.by_speaker, st.current),
              current |-> <<item>>,
              current_speaker |-> IF IsText(item) THEN Some(item.speaker)
                                  ELSE spk,
              i |-> st.i + 1]

\* One round of the loop of items_by_speaker: st holds by_speaker, current
\* and current_speaker, and the position i of the item the round takes.
GroupStep(st, item) ==
    LET spk == IF IsText(item) /\ st.current_speaker = None
               THEN Some(item.speaker) ELSE st.current_speaker
        will_append == ~(IsText(item) /\ spk # Some(item.speaker))
    IN  IF will_append
        THEN [by_speaker |-> st.by_speaker,
              current |-> Append(st.current, item),
              current_speaker |-> spk,
              i |-> st.i + 1]
        ELSE [by_speaker |-> Append(st.by_speaker, st.current),
              current |-> <<item>>,
              current_speaker |-> Some(item.speaker),
              i |-> st.i + 1]

\* The loop of items_by_speaker from st up to and including item hi: the
\* rounds up to the middle of what is left, then the rest.
RECURSIVE GroupLoop(_, _, _)
GroupLoop(its, st, hi) ==
    IF st.i > hi THEN st
    ELSE IF st.i = hi THEN GroupStep(st, its[hi])
    ELSE GroupLoop(its, GroupLoop(its, st, (st.i + hi) \div 2), hi)

\* Mutant of items_by_speaker: current_speaker starts as "S0", the default
\* speaker of a TextItem, instead of None.
items_by_speaker_DefaultSpeaker(its) ==
    LET st == GroupLoop(its, [by_speaker |-> <<>>, current |-> <<>>,
                              current_speaker |-> Some("S0"), i |-> 1],
                        Len(its))
    IN  Append(st.by_speaker, st.current)

items_by_speaker(its) ==
    LET st == GroupLoop(its, [by_speaker |-> <<>>, current |-> <<>>,
                              current_speaker |-> None, i |-> 1],
                        Len(its))
    IN  Append(st.by_speaker, st.current)

\* ------------------------------------------------------------- rendering
\* RichText.plain_text / bold / code: the style and the visible text.
RichText_plain_text(text) == [style |-> "plain", content |-> text]
RichText_bold(text) == [style |-> "bold", content |-> text]
RichText_code(text) == [style |-> "code", content |-> text]

\* Block.paragraph
Block_paragraph(text, children) ==
    [type |-> "paragraph", text |-> text, children |-> children]

\* str(datetime.timedelta(seconds=n)) for less than a day: H:MM:SS.
Pad2(n) == IF n < 10 THEN "0" \o ToString(n) ELSE ToString(n)
TimedeltaStr(n) ==
    ToString(n \div 3600) \o ":" \o Pad2((n % 3600) \div 60)
        \o ":" \o Pad2(n % 60)

\* Timestamp.__str__
Timestamp_str(item) == "[" \o TimedeltaStr(item.delta) \o "]"

\* Mutant of to_rich_text: a Timestamp is rendered as plain text too.
to_rich_text_AllPlain(item) ==
    IF IsText(item) THEN RichText_plain_text(item.text)
    ELSE RichText_plain_text(<<Timestamp_str(item)>>)

\* TextItem.to_rich_text / Timestamp.to_rich_text
to_rich_text(item) ==
    IF IsText(item) THEN RichText_plain_text(item.text)
    ELSE RichText_code(<<Timestamp_str(item)>>)

\* [g for g in group if isinstance(g, TextItem)]
TextItemsOf(group) == SelectSeq(group, IsText)

\* The text_items of one group in Transcript.to_block from item i on: the
\* loop appends each item's rich text and then a " ".
GroupNodes(group, i) ==
    [j \in 1..(2 * (Len(group) - i + 1)) |->
       IF j % 2 = 1 THEN to_rich_text(group[i + (j - 1) \div 2])
       ELSE RichText_plain_text(<<" ">>)]

\* The loop of Transcript.to_block over the groups from group k on: the
\* children, or the IndexError of [...][0] on a group without a TextItem.
BlockChildren(groups, k) ==
    IF \E j \in k..Len(groups) : TextItemsOf(groups[j]) = <<>>
    THEN [exc |-> "IndexError", value |-> <<>>]
    ELSE [exc |-> "none",
          value |->
            [j \in 1..(Len(groups) - k + 1) |->
               LET group == groups[k + j - 1]
                   speaker == TextItemsOf(group)[1].speaker
                   text_items == <<RichText_bold(<<speaker>>),
                                   RichText_plain_text(<<": ">>)>>
                                   \o GroupNodes(group, 1)
               IN  Block_paragraph(text_items, <<>>)]]

\* Transcript.to_block
Transcript_to_block(its, block_title) ==
    LET children == BlockChildren(items_by_speaker(its), 1)
    IN  IF children.exc # "none" THEN children
        ELSE [exc |-> "none",
              value |-> Block_paragraph(block_title, children.value)]

\* ''.join([str(g) for g in group]) from item i on: TextItem.__str__ is
\* the text, Timestamp.__str__ the bracketed time.
RECURSIVE JoinStr(_, _)
JoinStr(group, i) ==
    IF i > Len(group) THEN <<>>
    ELSE (IF IsText(group[i]) THEN group[i].text
          ELSE <<Timestamp_str(group[i])>>) \o JoinStr(group, i + 1)

\* The loop of Transcript.to_string over the groups from group k on, and
\* "\n".join(results): the lines with "\n" between them, or the IndexError
\* of [...][0] on a group without a TextItem.
RECURSIVE StringLines(_, _)
StringLines(groups, k) ==
    IF k > Len(groups) THEN [exc |-> "none", value |-> <<>>]
    ELSE IF TextItemsOf(groups[k]) = <<>>
         THEN [exc |-> "IndexError", value |-> <<>>]
    ELSE LET speaker == TextItemsOf(groups[k])[1].speaker
             item == <<speaker, ": ">> \o JoinStr(groups[k], 1)
             rest == StringLines(groups, k + 1)
         IN  IF rest.exc # "none" THEN rest
             ELSE [exc |-> "none",
                   value |-> IF k = Len(groups) THEN item
                             ELSE item \o <<"\n">> \o rest.value]

\* Transcript.to_string
Transcript_to_string(its) == StringLines(items_by_speaker(its), 1)

\* ------------------------------------------------ from_aws_transcribe_json
\* The token loop of from_aws_transcribe_json over tokens lo..hi, in order,
\* from r: an exception of __iadd__ ends the loop, so that no later token
\* is added; otherwise the first half of the range and then the second.
RECURSIVE FeedTokens(_, _, _, _)
FeedTokens(r, toks, lo, hi) ==
    IF r.exc # "none" \/ lo > hi THEN r
    ELSE IF lo = hi THEN Transcript_iadd(r.t, toks[lo])
    ELSE FeedTokens(FeedTokens(r, toks, lo, (lo + hi) \div 2),
                    toks, (lo + hi) \div 2 + 1, hi)

\* Transcript.from_aws_transcribe_json: the transcript, or the exception.
from_aws_transcribe_json(aws_json) ==
    FeedTokens([t |-> TranscriptObj(aws_json.segments, 0, TimestampEvery, <<>>),
                exc |-> "none"],
               aws_json.items, 1, Len(aws_json.items))

\* ------------------------------------------------------ VoiceNote.to_block
\* FormattingSettings: break_speakers, true unless given.
FormattingSettings(break_speakers) == [break_speakers |-> break_speakers]

\* from_aws_transcribe_json(aws_json, settings=settings): the transcript
\* built from the tokens, which keeps the settings it was built with.
from_aws_transcribe_json_settings(aws_json, settings) ==
    LET r == from_aws_transcribe_json(aws_json)
    IN  [exc |-> r.exc,
         obj |-> [items |-> r.t.items,
                  segments |-> r.t.segments,
                  segment_index |-> r.t.segment_index,
                  next_timestamp |-> r.t.next_timestamp,
                  settings |-> settings]]

\* items_by_speaker of a transcript built with settings: without
\* break_speakers the whole item list is one group.
items_by_speaker_settings(obj) ==
    IF obj.settings.break_speakers THEN items_by_speaker(obj.items)
    ELSE <<obj.items>>

\* Transcript.to_block of a transcript built with settings: a transcript
\* without segments signals the no-speech condition instead of rendering.
Transcript_to_block_settings(obj, block_title) ==
    LET children == BlockChildren(items_by_speaker_settings(obj), 1)
    IN  IF obj.segments = <<>>
        THEN [exc |-> "NoSpeakersException", value |-> <<>>]
        ELSE IF children.exc # "none" THEN children
        ELSE [exc |-> "none",
              value |-> Block_paragraph(block_title, children.value)]

\* Mutant of TooManyGroups: 95 groups are already too many (>= for >).
TooManyGroups_AtLimit(obj) ==
    Len(items_by_speaker_settings(obj)) >= SpeakerGroupLimit

\* len(t.items_by_speaker()) > 95
TooManyGroups(obj) ==
    Len(items_by_speaker_settings(obj)) > SpeakerGroupLimit

\* Block.href
Block_href(link_url, text) ==
    Block_paragraph(<<[style |-> "link", content |-> <<text>>,
                       href |-> link_url]>>, <<>>)

\* Block.prepend_child
Block_prepend_child(block, child) ==
    [block EXCEPT !.children = <<child>> \o @]

\* A recognition result of k turns: k segments of one second each whose
\* speakers alternate, with one word in each.
TurnsJson(k) ==
    [speakers |-> IF k < 2 THEN k ELSE 2,
     segments |-> [i \in 1..k |->
                     AWSSegment(i - 1, Sec(i - 1), Sec(i),
                                IF i % 2 = 1 THEN "S0" ELSE "S1")],
     items |-> [i \in 1..k |->
                  AWSTranscriptItem("pronunciation", Some(Sec(i) - 1),
                                    Content(i, "pronunciation"))]]

NoteJsons == { TurnsJson(k) : k \in 0..MaxTurns }

\* VoiceNote.to_block as one call: the block, or the exception.
VoiceNote_to_block(note_status, note_transcript, with_file) ==
    IF note_status < Transcribed
    THEN [exc |-> "AssertionError", value |-> <<>>]
    ELSE LET first == from_aws_transcribe_json_settings(
                          note_transcript[1], FormattingSettings(TRUE))
             again == from_aws_transcribe_json_settings(
                          note_transcript[1], FormattingSettings(FALSE))
             built_t == IF first.exc = "none" /\ TooManyGroups(first.obj)
                        THEN again ELSE first
             r == Transcript_to_block_settings(
                      built_t.obj, <<RichText_bold(<<"name">>)>>)
         IN  IF built_t.exc # "none"
             THEN [exc |-> built_t.exc, value |-> <<>>]
             ELSE IF r.exc # "none" THEN r
             ELSE [exc |-> "none",
                   value |-> IF with_file
                             THEN Block_prepend_child(
                                      r.value,
                                      Block_href("slug/name",
                                                 "AWS Console: name"))
                             ELSE r.value]

\* The recognition results a transcription job of the pipeline returns:
\* one without speech and one of two turns.
SyncJsons == { TurnsJson(0), TurnsJson(2) }

\* ------------------------------------------------------ notion/search.py
\* The months of the dates looked up: two of one digit and one whose
\* number starts with the digit of another.
JournalMonths == {1, 2, 12}

\* str(n) of a natural number, digit by digit.
RECURSIVE Digits(_)
Digits(n) ==
    IF n < 10 THEN <<ToString(n)>>
    ELSE Digits(n \div 10) \o <<ToString(n % 10)>>

\* f"{year}/{month}" and f"{year}/{month}/{day}": a title is the sequence
\* of its pieces, a number being the sequence of its digits but for the
\* year, which is one piece.
MonthlySlug(d) == <<ToString(d.year), "/">> \o Digits(d.month)
DailySlug(d) == MonthlySlug(d) \o <<"/">> \o Digits(d.day)

\* The titles new_monthly_page and new_daily_page give a page.
MonthlyTitle(d) == <<"Personal Journal ">> \o MonthlySlug(d)
DailyTitle(d) == <<"Personal Journal ">> \o DailySlug(d)

\* needle in hay, for strings
Contains(hay, needle) ==
    \E i \in 0..(Len(hay) - Len(needle)) :
      SubSeq(hay, i + 1, i + Len(needle)) = needle

\* Page: its id and its plain_text_title.
Page(id, title) == [id |-> id, plain_text_title |-> title]

\* The dates looked up: one day of each month of one year.
JournalDates ==
    { [year |-> 2021, month |-> mo, day |-> 5] : mo \in JournalMonths }

\* The journal pages of the workspace: the monthly page and a daily page
\* of each month.
JournalPages ==
    { Page(<<"monthly", d.month>>, MonthlyTitle(d)) : d \in JournalDates }
      \cup { Page(<<"daily", d.month>>, DailyTitle(d)) : d \in JournalDates }

\* The results of a search: up to MaxPages journal pages, each once.
SearchResults ==
    UNION { { s \in [1..n -> JournalPages] :
                \A i, j \in 1..n : i # j => s[i] # s[j] } : n \in 0..MaxPages }

\* get_monthly_page_id, results being notion.search(...)["results"].
get_monthly_page_id(results, d) ==
    LET monthly_slug == MonthlySlug(d)
        reject_daily_slug == MonthlySlug(d) \o <<"/">>
        Keep(r) == /\ ~Contains(r.plain_text_title, reject_daily_slug)
                   /\ Contains(r.plain_text_title, monthly_slug)
        kept == SelectSeq(results, Keep)
    IN  IF ~(Len(kept) < 2) THEN [exc |-> "AssertionError", value |-> None]
        ELSE [exc |-> "none",
              value |-> IF kept # <<>> THEN Some(kept[1].id) ELSE None]

\* get_page_matching_exact_title
get_page_matching_exact_title(results, title) ==
    LET Keep(r) == r.plain_text_title = title
        kept == SelectSeq(results, Keep)
    IN  IF ~(Len(kept) < 2) THEN [exc |-> "AssertionError", value |-> None]
        ELSE [exc |-> "none",
              value |-> IF kept # <<>> THEN Some(kept[1].id) ELSE None]

\* get_daily_page_id
get_daily_page_id(results, d) ==
    get_page_matching_exact_title(results, DailyTitle(d))

\* ------------------------------------------------------------------- state
VARIABLES
    segments,        \* Transcript.segments
    n_speakers,      \* Transcript.n_speakers
    segment_index,   \* Transcript.segment_index (0-based, as in the code)
    next_timestamp,  \* Transcript.next_timestamp, in seconds
    items,           \* Transcript.items
    ntok,            \* tokens of the stream handed to __iadd__ so far
    call,            \* the last call: its name, its token argument, the
                     \* exception it raised and the value it returned
    status,          \* VoiceNote.status
    transcript,      \* VoiceNote.transcript["results"], or None
    file,            \* the file argument of VoiceNote.to_block
    pc,              \* where VoiceNote.to_block stands
    built,           \* the Transcript objects to_block has built, in order
    t,               \* the object the local t of to_block names (0: none)
    block,           \* what VoiceNote.to_block returned
    path,            \* VoiceNote.path: under "ingress" or under "archive"
    db,              \* the status of the note as config.save last stored it
    ingress_file,    \* whether the media file is in the ingress directory
    archive_file,    \* whether a file of its name is in the archive
    s3_object,       \* whether the media file is in the S3 bucket
    uploads,         \* calls of upload_file so far
    jobs,            \* transcription jobs started so far
    page,            \* blocks appended to the Notion page so far
    nsync,           \* calls of synchronize so far
    nreset,          \* calls of reset_transcript so far
    pages,           \* the pages notion.search returns, in its order
    query_date,      \* the date a journal page is looked up for
    job_started,     \* TranscriptionJob.started
    job_status,      \* the status AWS Transcribe has for the job's name
    observed,        \* the statuses block_on_transcript has read so far
    polls,           \* its reads of the status so far, up to MaxPolls
    store,           \* the note database: the saved note of each name
    fs,              \* of each name: the files in ingress, archive, bucket
    phase,           \* the loop import_all is in
    queue,           \* the names its loop has still to take, in order
    cur,             \* the name of the note being synchronized (0: none)
    appended         \* the names of the notes appended to Notion, in order

builderVars == <<segments, n_speakers, segment_index, next_timestamp, items,
                 ntok, call>>
noteVars == <<status, transcript, file, pc, built, t, block>>
jobVars == <<job_started, job_status, observed, polls>>
importVars == <<store, fs, phase, queue, cur, appended>>
syncVars == <<path, db, ingress_file, archive_file, s3_object, uploads, jobs,
              page, nsync, nreset, pages, query_date, jobVars, importVars>>
vars == <<builderVars, noteVars, syncVars>>

Self == TranscriptObj(segments, segment_index, next_timestamp, items)

\* No voice note: the transcript is built and read on its own.
NoNote ==
    /\ status = Ingress
    /\ transcript = None
    /\ file = FALSE
    /\ pc = "none"
    /\ built = <<>>
    /\ t = 0
    /\ block = None

\* No transcription job.
NoJob ==
    /\ job_started = FALSE
    /\ job_status = "NONE"
    /\ observed = {}
    /\ polls = 0

\* No run of import_all.
NoImport ==
    /\ store = <<>>
    /\ fs = <<>>
    /\ phase = "none"
    /\ queue = <<>>
    /\ cur = 0
    /\ appended = <<>>

\* No pipeline: the note is not synchronized.
NoSync ==
    /\ NoJob
    /\ NoImport
    /\ path = "ingress"
    /\ db = None
    /\ ingress_file = FALSE
    /\ archive_file = FALSE
    /\ s3_object = FALSE
    /\ uploads = 0
    /\ jobs = 0
    /\ page = 0
    /\ nsync = 0
    /\ nreset = 0
    /\ pages = <<>>
    /\ query_date = None

\* from_aws_transcribe_json up to its token loop: cls(), then the fields.
Init ==
    /\ segments \in SegmentLists
    /\ n_speakers = Cardinality({ segments[i].speaker_label :
                                    i \in DOMAIN segments })
    /\ segment_index = 0
    /\ next_timestamp = TimestampEvery
    /\ items = <<>>
    /\ ntok = 0
    /\ call = [op |-> "init", exc |-> "none"]
    /\ NoNote
    /\ NoSync

\* Whether the last call raised: the exception leaves the token loop of
\* from_aws_transcribe_json and the function, and the transcript with it.
Raised == call.exc # "none"

\* One round of the loop of from_aws_transcribe_json: t += item.
IAdd ==
    /\ ~Raised
    /\ ntok < MaxTokens
    /\ \E token \in Tokens(ntok + 1) :
         LET r == Transcript_iadd(Self, token)
         IN  /\ segment_index' = r.t.segment_index
             /\ next_timestamp' = r.t.next_timestamp
             /\ items' = r.t.items
             /\ call' = [op |-> "iadd", token |-> token, exc |-> r.exc]
    /\ ntok' = ntok + 1
    /\ UNCHANGED <<segments, n_speakers, noteVars, syncVars>>

\* Mutant of ItemsBySpeaker: the grouping takes the items out of the list.
ItemsBySpeaker_Draining ==
    /\ ~Raised
    /\ call' = [op |-> "items_by_speaker", exc |-> "none",
                value |-> items_by_speaker(items),
                again |-> (call.op = "items_by_speaker")]
    /\ items' = <<>>
    /\ UNCHANGED <<segments, n_speakers, segment_index, next_timestamp, ntok,
                   noteVars, syncVars>>

\* t.items_by_speaker(); again tells a call that directly follows another.
ItemsBySpeaker ==
    /\ ~Raised
    /\ call' = [op |-> "items_by_speaker", exc |-> "none",
                value |-> items_by_speaker(items),
                again |-> (call.op = "items_by_speaker")]
    /\ UNCHANGED <<segments, n_speakers, segment_index, next_timestamp,
                   items, ntok, noteVars, syncVars>>

\* t.to_block(block_title)
ToBlock ==
    /\ ~Raised
    /\ LET r == Transcript_to_block(items, <<RichText_bold(<<"title">>)>>)
       IN  call' = [op |-> "to_block", exc |-> r.exc, value |-> r.value]
    /\ UNCHANGED <<segments, n_speakers, segment_index, next_timestamp,
                   items, ntok, noteVars, syncVars>>

\* t.to_string()
ToStringCall ==
    /\ ~Raised
    /\ LET r == Transcript_to_string(items)
       IN  call' = [op |-> "to_string", exc |-> r.exc, value |-> r.value]
    /\ UNCHANGED <<segments, n_speakers, segment_index, next_timestamp,
                   items, ntok, noteVars, syncVars>>

Next == IAdd \/ ItemsBySpeaker \/ ToBlock \/ ToStringCall

Spec == Init /\ [][Next]_vars

\* ------------------------------------------------- VoiceNote.to_block steps
\* A voice note on which to_block is called: transcribed, with the
\* recognition result, or not yet, without one.
InitNote ==
    /\ segments = <<>>
    /\ n_speakers = 0
    /\ segment_index = 0
    /\ next_timestamp = TimestampEvery
    /\ items = <<>>
    /\ ntok = 0
    /\ call = [op |-> "init", exc |-> "none"]
    /\ \/ status \in {Ingress, Local, S3} /\ transcript = None
       \/ status \in {Transcribed, Notion, Evicted}
            /\ transcript \in { Some(j) : j \in NoteJsons }
    /\ file \in BOOLEAN
    /\ pc = "start"
    /\ built = <<>>
    /\ t = 0
    /\ block = None
    /\ NoSync

\* The assert, then t = Transcript.from_aws_transcribe_json(..., settings)
\* with FormattingSettings().
NoteBuild ==
    /\ pc = "start"
    /\ IF status < Transcribed
       THEN pc' = "AssertionError" /\ UNCHANGED <<built, t>>
       ELSE LET r == from_aws_transcribe_json_settings(
                         transcript[1], FormattingSettings(TRUE))
            IN  IF r.exc # "none"
                THEN pc' = r.exc /\ UNCHANGED <<built, t>>
                ELSE /\ built' = Append(built, r.obj)
                     /\ t' = Len(built) + 1
                     /\ pc' = "built"
    /\ UNCHANGED <<builderVars, syncVars, status, transcript, file, block>>

\* More than 95 groups: t is built again, with break_speakers=False.
NoteRebuild ==
    /\ pc = "built"
    /\ TooManyGroups(built[t])
    /\ LET r == from_aws_transcribe_json_settings(
                    transcript[1], FormattingSettings(FALSE))
       IN  IF r.exc # "none"
           THEN pc' = r.exc /\ UNCHANGED <<built, t>>
           ELSE /\ built' = Append(built, r.obj)
                /\ t' = Len(built) + 1
                /\ pc' = "ready"
    /\ UNCHANGED <<builderVars, syncVars, status, transcript, file, block>>

\* At most 95 groups: t stays.
NoteKeep ==
    /\ pc = "built"
    /\ ~TooManyGroups(built[t])
    /\ pc' = "ready"
    /\ UNCHANGED <<builderVars, syncVars, status, transcript, file, built, t, block>>

\* block = t.to_block(...), the link put first when file is set, return.
NoteRender ==
    /\ pc = "ready"
    /\ LET r == Transcript_to_block_settings(
                    built[t], <<RichText_bold(<<"name">>)>>)
       IN  IF r.exc # "none"
           THEN pc' = r.exc /\ UNCHANGED block
           ELSE /\ block' = Some(IF file
                                 THEN Block_prepend_child(
                                          r.value,
                                          Block_href("slug/name",
                                                     "AWS Console: name"))
                                 ELSE r.value)
                /\ pc' = "done"
    /\ UNCHANGED <<builderVars, syncVars, status, transcript, file, built, t>>

NextNote == NoteBuild \/ NoteRebuild \/ NoteKeep \/ NoteRender

SpecNote == InitNote /\ [][NextNote]_vars

\* ----------------------------------------------- VoiceNote.synchronize steps
\* A voice note as import_all creates it: VoiceNote(item) for a file of the
\* ingress directory, of which the archive may hold a file of the same name.
InitSync ==
    /\ segments = <<>>
    /\ n_speakers = 0
    /\ segment_index = 0
    /\ next_timestamp = TimestampEvery
    /\ items = <<>>
    /\ ntok = 0
    /\ call = [op |-> "init", exc |-> "none"]
    /\ status = Ingress
    /\ transcript = None
    /\ file = TRUE
    /\ pc = "idle"
    /\ built = <<>>
    /\ t = 0
    /\ block = None
    /\ path = "ingress"
    /\ db = None
    /\ ingress_file = TRUE
    /\ archive_file \in BOOLEAN
    /\ s3_object = FALSE
    /\ uploads = 0
    /\ jobs = 0
    /\ page = 0
    /\ nsync = 0
    /\ nreset = 0
    /\ pages = <<>>
    /\ query_date = None
    /\ NoJob
    /\ NoImport

\* What no step of the pipeline changes.
SyncFrame == UNCHANGED <<segments, n_speakers, segment_index, next_timestamp,
                         items, ntok, file, built, t, block, pages,
                         query_date, jobVars, importVars>>

\* Mutant of BumpStatus: the status is set and the note saved whatever the
\* wrapped method returned.
BumpStatus_Always(returned, new) ==
    status' = new /\ db' = Some(new)

\* bump_status(new): when the wrapped method returned a true value, the
\* status is set and the note saved.
BumpStatus(returned, new) ==
    IF returned THEN status' = new /\ db' = Some(new)
    ELSE UNCHANGED <<status, db>>

\* A method of synchronize ends: the next one is entered, or the exception
\* leaves synchronize.  returned tells whether the method under bump_status
\* returned a true value.
Proceed(op, exc, returned, next) ==
    /\ call' = [op |-> op, exc |-> exc, returned |-> returned]
    /\ pc' = IF exc = "none" THEN next ELSE "idle"

\* note.synchronize(config) is called.
Synchronize ==
    /\ pc = "idle"
    /\ nsync < MaxSyncs
    /\ nsync' = nsync + 1
    /\ pc' = "cache_local"
    /\ call' = [op |-> "synchronize", exc |-> "none"]
    /\ UNCHANGED <<status, transcript, path, db, ingress_file, archive_file,
                   s3_object, uploads, jobs, page, nreset>>
    /\ SyncFrame

\* cache_local, under bump_status(Local).
CacheLocal ==
    /\ pc = "cache_local"
    /\ IF status # Ingress
       THEN /\ Proceed("cache_local", "none", FALSE, "upload_to_s3")
            /\ BumpStatus(FALSE, Local)
            /\ UNCHANGED <<path, ingress_file, archive_file>>
       ELSE IF archive_file
       THEN \* already imported: os.remove of the ingress file
            /\ Proceed("cache_local",
                       IF ingress_file THEN "none" ELSE "FileNotFoundError",
                       FALSE, "upload_to_s3")
            /\ ingress_file' = FALSE
            /\ BumpStatus(FALSE, Local)
            /\ UNCHANGED <<path, archive_file>>
       ELSE \* shutil.move(self.path, new_path)
            IF ingress_file
            THEN /\ Proceed("cache_local", "none", TRUE, "upload_to_s3")
                 /\ ingress_file' = FALSE
                 /\ archive_file' = TRUE
                 /\ path' = "archive"
                 /\ BumpStatus(TRUE, Local)
            ELSE /\ Proceed("cache_local", "FileNotFoundError", FALSE,
                            "upload_to_s3")
                 /\ BumpStatus(FALSE, Local)
                 /\ UNCHANGED <<path, ingress_file, archive_file>>
    /\ UNCHANGED <<transcript, s3_object, uploads, jobs, page, nsync, nreset>>
    /\ SyncFrame

\* Mutant of UploadToS3: the test of the status is left out.
UploadToS3_NoGuard ==
    /\ pc = "upload_to_s3"
    /\ \E uploaded \in BOOLEAN :
         /\ call' = [op |-> "upload_to_s3", exc |-> "none",
                     returned |-> TRUE, uploaded |-> uploaded]
         /\ pc' = "transcribe_on_s3"
         /\ uploads' = uploads + 1
         /\ s3_object' = (s3_object \/ uploaded)
         /\ BumpStatus(TRUE, S3)
    /\ UNCHANGED <<transcript, path, ingress_file, archive_file, jobs, page,
                   nsync, nreset>>
    /\ SyncFrame

\* upload_to_s3, under bump_status(S3): upload_file succeeds, or raises a
\* ClientError that is logged; the method returns True either way.
UploadToS3 ==
    /\ pc = "upload_to_s3"
    /\ IF status # Local
       THEN /\ Proceed("upload_to_s3", "none", FALSE, "transcribe_on_s3")
            /\ BumpStatus(FALSE, S3)
            /\ UNCHANGED <<s3_object, uploads>>
       ELSE \E uploaded \in BOOLEAN :
              /\ call' = [op |-> "upload_to_s3", exc |-> "none",
                          returned |-> TRUE, uploaded |-> uploaded]
              /\ pc' = "transcribe_on_s3"
              /\ uploads' = uploads + 1
              /\ s3_object' = (s3_object \/ uploaded)
              /\ BumpStatus(TRUE, S3)
    /\ UNCHANGED <<transcript, path, ingress_file, archive_file, jobs, page,
                   nsync, nreset>>
    /\ SyncFrame

\* What block_on_transcript gives: ValueError when the job failed, None
\* when the finished transcript could not be fetched, or the transcript.  A
\* job on a file that is not in the bucket fails.
JobOutcomes ==
    IF s3_object
    THEN {[exc |-> "ValueError", value |-> None],
          [exc |-> "none", value |-> None]}
           \cup { [exc |-> "none", value |-> Some(j)] : j \in SyncJsons }
    ELSE {[exc |-> "ValueError", value |-> None]}

\* transcribe_on_s3, under bump_status(Transcribed).
TranscribeOnS3 ==
    /\ pc = "transcribe_on_s3"
    /\ IF status # S3
       THEN /\ Proceed("transcribe_on_s3", "none", FALSE, "add_to_notion")
            /\ BumpStatus(FALSE, Transcribed)
            /\ UNCHANGED <<transcript, jobs>>
       ELSE \E got \in JobOutcomes :
              /\ Proceed("transcribe_on_s3", got.exc,
                         got.exc = "none" /\ got.value # None,
                         "add_to_notion")
              /\ jobs' = jobs + 1
              /\ IF got.exc = "none" /\ got.value # None
                 THEN transcript' = got.value /\ BumpStatus(TRUE, Transcribed)
                 ELSE UNCHANGED transcript /\ BumpStatus(FALSE, Transcribed)
    /\ UNCHANGED <<path, ingress_file, archive_file, s3_object, uploads, page,
                   nsync, nreset>>
    /\ SyncFrame

\* Mutant of AddToNotion: a finished note is not skipped.
AddToNotion_NoSkip ==
    /\ pc = "add_to_notion"
    /\ pc' = "idle"
    /\ LET r == VoiceNote_to_block(status, transcript, TRUE)
       IN  /\ call' = [op |-> "add_to_notion",
                       exc |-> IF r.exc = "NoSpeakersException"
                               THEN "none" ELSE r.exc,
                       render |-> r.exc,
                       returned |-> r.exc = "none"]
           /\ IF r.exc = "NoSpeakersException"
              THEN status' = Evicted /\ db' = Some(Evicted) /\ UNCHANGED page
              ELSE IF r.exc # "none"
              THEN UNCHANGED <<status, db, page>>
              ELSE page' = page + 1 /\ BumpStatus(TRUE, Notion)
    /\ UNCHANGED <<transcript, path, ingress_file, archive_file, s3_object,
                   uploads, jobs, nsync, nreset>>
    /\ SyncFrame

\* Mutant of AddToNotion: after the note is evicted the block is appended
\* all the same and the method returns True.
AddToNotion_EvictedAppends ==
    /\ pc = "add_to_notion"
    /\ pc' = "idle"
    /\ IF status >= Notion
       THEN /\ call' = [op |-> "add_to_notion", exc |-> "none",
                        render |-> "skipped", returned |-> FALSE]
            /\ UNCHANGED <<status, db, page>>
       ELSE LET r == VoiceNote_to_block(status, transcript, TRUE)
            IN  /\ call' = [op |-> "add_to_notion",
                            exc |-> IF r.exc = "NoSpeakersException"
                                    THEN "none" ELSE r.exc,
                            render |-> r.exc,
                            returned |-> r.exc \in {"none",
                                                    "NoSpeakersException"}]
                /\ IF r.exc \notin {"none", "NoSpeakersException"}
                   THEN UNCHANGED <<status, db, page>>
                   ELSE page' = page + 1 /\ BumpStatus(TRUE, Notion)
    /\ UNCHANGED <<transcript, path, ingress_file, archive_file, s3_object,
                   uploads, jobs, nsync, nreset>>
    /\ SyncFrame

\* add_to_notion, under bump_status(Notion); render is what self.to_block()
\* raised.  It is the last method of synchronize.  After NoSpeakersException
\* the method itself sets the status and saves the note, and returns None.
AddToNotion ==
    /\ pc = "add_to_notion"
    /\ pc' = "idle"
    /\ IF status >= Notion
       THEN /\ call' = [op |-> "add_to_notion", exc |-> "none",
                        render |-> "skipped", returned |-> FALSE]
            /\ BumpStatus(FALSE, Notion)
            /\ UNCHANGED page
       ELSE LET r == VoiceNote_to_block(status, transcript, TRUE)
            IN  /\ call' = [op |-> "add_to_notion",
                            exc |-> IF r.exc = "NoSpeakersException"
                                    THEN "none" ELSE r.exc,
                            render |-> r.exc,
                            returned |-> r.exc = "none"]
                /\ IF r.exc = "NoSpeakersException"
                   THEN /\ status' = Evicted
                        /\ db' = Some(Evicted)
                        /\ UNCHANGED page
                   ELSE IF r.exc # "none"
                   THEN /\ BumpStatus(FALSE, Notion)
                        /\ UNCHANGED page
                   ELSE /\ page' = page + 1
                        /\ BumpStatus(TRUE, Notion)
    /\ UNCHANGED <<transcript, path, ingress_file, archive_file, s3_object,
                   uploads, jobs, nsync, nreset>>
    /\ SyncFrame

\* Mutant of ResetTranscript: the transcript is kept.
ResetTranscript_KeepsTranscript ==
    /\ pc = "idle"
    /\ nreset < MaxResets
    /\ nreset' = nreset + 1
    /\ IF status > S3
       THEN /\ call' = [op |-> "reset_transcript", exc |-> "none",
                        returned |-> TRUE]
            /\ BumpStatus(TRUE, S3)
       ELSE /\ call' = [op |-> "reset_transcript", exc |-> "AssertionError",
                        returned |-> FALSE]
            /\ BumpStatus(FALSE, S3)
    /\ UNCHANGED <<transcript, pc, path, ingress_file, archive_file, s3_object,
                   uploads, jobs, page, nsync>>
    /\ SyncFrame

\* reset_transcript, under bump_status(S3).
ResetTranscript ==
    /\ pc = "idle"
    /\ nreset < MaxResets
    /\ nreset' = nreset + 1
    /\ IF status > S3
       THEN /\ call' = [op |-> "reset_transcript", exc |-> "none",
                        returned |-> TRUE]
            /\ transcript' = None
            /\ BumpStatus(TRUE, S3)
       ELSE /\ call' = [op |-> "reset_transcript", exc |-> "AssertionError",
                        returned |-> FALSE]
            /\ UNCHANGED transcript
            /\ BumpStatus(FALSE, S3)
    /\ UNCHANGED <<pc, path, ingress_file, archive_file, s3_object, uploads,
                   jobs, page, nsync>>
    /\ SyncFrame

\* attach_existing_transcript(config, job_name), under
\* bump_status(Transcribed): the effect on the note, and the exception.
\* A job name of None is refused by get_transcription_job.
AttachExisting(op, job_name, tag) ==
    IF status # S3
    THEN /\ call' = [op |-> op, exc |-> "AssertionError", job |-> job_name,
                     attached |-> tag, returned |-> FALSE]
         /\ UNCHANGED transcript
         /\ BumpStatus(FALSE, Transcribed)
    ELSE IF job_name = None
    THEN /\ call' = [op |-> op, exc |-> "ParamValidationError",
                     job |-> job_name, attached |-> tag, returned |-> FALSE]
         /\ UNCHANGED transcript
         /\ BumpStatus(FALSE, Transcribed)
    ELSE \E got \in JobOutcomes :
           LET returned == got.exc = "none" /\ got.value # None
           IN  /\ call' = [op |-> op, exc |-> got.exc, job |-> job_name,
                           attached |-> tag, returned |-> returned]
               /\ transcript' = IF returned THEN got.value ELSE transcript
               /\ BumpStatus(returned, Transcribed)

\* scripts/attach_transcript.py: --job is required by the parser.
AttachTranscriptScript ==
    /\ pc = "idle"
    /\ db # None
    /\ AttachExisting("attach_transcript.py", Some("job"), Some("job"))
    /\ UNCHANGED <<pc, path, ingress_file, archive_file, s3_object, uploads,
                   jobs, page, nsync, nreset>>
    /\ SyncFrame

\* scripts/item.py --action attach-transcript, with or without --job;
\* attached is the job name attach_existing_transcript was called with,
\* "no call" when it was not called.
ItemAttachTranscript ==
    /\ pc = "idle"
    /\ db # None
    /\ \E job \in {None, Some("job")} :
         IF job # None
         THEN \* parser.error: usage message, exit status 2
              /\ call' = [op |-> "item.py", exc |-> "SystemExit",
                          job |-> job, attached |-> "no call",
                          returned |-> FALSE]
              /\ UNCHANGED <<transcript, status, db>>
         ELSE AttachExisting("item.py", job, job)
    /\ UNCHANGED <<pc, path, ingress_file, archive_file, s3_object, uploads,
                   jobs, page, nsync, nreset>>
    /\ SyncFrame

NextSync ==
    \/ Synchronize
    \/ CacheLocal
    \/ UploadToS3
    \/ TranscribeOnS3
    \/ AddToNotion
    \/ ResetTranscript
    \/ AttachTranscriptScript
    \/ ItemAttachTranscript

SpecSync == InitSync /\ [][NextSync]_vars

\* ------------------------------------------------- journal page lookups
\* A workspace and a date to look up.
InitSearch ==
    /\ segments = <<>>
    /\ n_speakers = 0
    /\ segment_index = 0
    /\ next_timestamp = TimestampEvery
    /\ items = <<>>
    /\ ntok = 0
    /\ call = [op |-> "init", exc |-> "none"]
    /\ NoNote
    /\ path = "ingress"
    /\ db = None
    /\ ingress_file = FALSE
    /\ archive_file = FALSE
    /\ s3_object = FALSE
    /\ uploads = 0
    /\ jobs = 0
    /\ page = 0
    /\ nsync = 0
    /\ nreset = 0
    /\ pages \in SearchResults
    /\ query_date \in JournalDates
    /\ NoJob
    /\ NoImport

\* get_monthly_page_id(notion, query_date)
GetMonthlyPageId ==
    /\ LET r == get_monthly_page_id(pages, query_date)
       IN  call' = [op |-> "get_monthly_page_id", exc |-> r.exc,
                    value |-> r.value]
    /\ UNCHANGED <<segments, n_speakers, segment_index, next_timestamp,
                   items, ntok, noteVars, syncVars>>

\* get_daily_page_id(notion, query_date)
GetDailyPageId ==
    /\ LET r == get_daily_page_id(pages, query_date)
       IN  call' = [op |-> "get_daily_page_id", exc |-> r.exc,
                    value |-> r.value]
    /\ UNCHANGED <<segments, n_speakers, segment_index, next_timestamp,
                   items, ntok, noteVars, syncVars>>

NextSearch == GetMonthlyPageId \/ GetDailyPageId

SpecSearch == InitSearch /\ [][NextSearch]_vars

\* ------------------------------------------ TranscriptionJob, transcription.py
\* TranscriptionStatus
JobStatuses == {"IN_PROGRESS", "FAILED", "COMPLETED"}

\* A TranscriptionJob as its constructor leaves it, started = False.  AWS
\* Transcribe has no job of its name ("NONE"), or one of an earlier run.
InitJob ==
    /\ segments = <<>>
    /\ n_speakers = 0
    /\ segment_index = 0
    /\ next_timestamp = TimestampEvery
    /\ items = <<>>
    /\ ntok = 0
    /\ call = [op |-> "init", exc |-> "none"]
    /\ status = Ingress
    /\ transcript = None
    /\ file = FALSE
    /\ pc = "idle"
    /\ built = <<>>
    /\ t = 0
    /\ block = None
    /\ path = "ingress"
    /\ db = None
    /\ ingress_file = FALSE
    /\ archive_file = FALSE
    /\ s3_object = FALSE
    /\ uploads = 0
    /\ jobs = 0
    /\ page = 0
    /\ nsync = 0
    /\ nreset = 0
    /\ pages = <<>>
    /\ query_date = None
    /\ job_started = FALSE
    /\ job_status \in {"NONE"} \cup JobStatuses
    /\ observed = {}
    /\ polls = 0
    /\ NoImport

\* What no step on a TranscriptionJob changes.
JobFrame == UNCHANGED <<segments, n_speakers, segment_index, next_timestamp,
                        items, ntok, status, transcript, file, built, t,
                        block, path, db, ingress_file, archive_file,
                        s3_object, uploads, page, nsync, nreset, pages,
                        query_date, importVars>>

\* job.start(): start_transcription_job under the job's new name.
JobStart ==
    /\ pc \in {"idle", "done"}
    /\ ~job_started
    /\ job_status = "NONE"
    /\ job_status' = "IN_PROGRESS"
    /\ job_started' = TRUE
    /\ jobs' = jobs + 1
    /\ call' = [op |-> "start", exc |-> "none"]
    /\ UNCHANGED <<pc, observed, polls>>
    /\ JobFrame

\* TranscriptionJob.from_existing_job(config, job_name), the name of a job
\* AWS Transcribe has.
JobFromExisting ==
    /\ pc \in {"idle", "done"}
    /\ ~job_started
    /\ job_status \in JobStatuses
    /\ job_started' = TRUE
    /\ call' = [op |-> "from_existing_job", exc |-> "none"]
    /\ UNCHANGED <<pc, job_status, jobs, observed, polls>>
    /\ JobFrame

\* AWS Transcribe finishes the job, or gives it up.
JobEnds ==
    /\ job_status = "IN_PROGRESS"
    /\ job_status' \in {"COMPLETED", "FAILED"}
    /\ UNCHANGED <<pc, call, job_started, jobs, observed, polls>>
    /\ JobFrame

\* job.block_on_transcript() is called.
BlockOnTranscript ==
    /\ pc \in {"idle", "done"}
    /\ pc' = "poll"
    /\ observed' = {}
    /\ polls' = 0
    /\ call' = [op |-> "block_on_transcript", exc |-> "none"]
    /\ UNCHANGED <<job_started, job_status, jobs>>
    /\ JobFrame

\* Mutant of Poll: every status that is not FAILED is taken for COMPLETED.
Poll_ReturnsUnlessFailed ==
    /\ pc = "poll"
    /\ IF ~job_started
       THEN /\ call' = [op |-> "block_on_transcript",
                        exc |-> "AssertionError", value |-> None]
            /\ pc' = "done"
            /\ UNCHANGED <<observed, polls>>
       ELSE /\ observed' = observed \cup {job_status}
            /\ polls' = IF polls < MaxPolls THEN polls + 1 ELSE polls
            /\ IF job_status = "FAILED"
               THEN /\ call' = [op |-> "block_on_transcript",
                                exc |-> "ValueError", value |-> None]
                    /\ pc' = "done"
               ELSE /\ \E got \in {None} \cup { Some(j) : j \in SyncJsons } :
                         call' = [op |-> "block_on_transcript",
                                  exc |-> "none", value |-> got]
                    /\ pc' = "done"
    /\ UNCHANGED <<job_started, job_status, jobs>>
    /\ JobFrame

\* Mutant of Poll: a FAILED job is polled again like one IN_PROGRESS.
Poll_WaitsOnFailed ==
    /\ pc = "poll"
    /\ IF ~job_started
       THEN /\ call' = [op |-> "block_on_transcript",
                        exc |-> "AssertionError", value |-> None]
            /\ pc' = "done"
            /\ UNCHANGED <<observed, polls>>
       ELSE /\ observed' = observed \cup {job_status}
            /\ polls' = IF polls < MaxPolls THEN polls + 1 ELSE polls
            /\ IF job_status = "COMPLETED"
               THEN /\ \E got \in {None} \cup { Some(j) : j \in SyncJsons } :
                         call' = [op |-> "block_on_transcript",
                                  exc |-> "none", value |-> got]
                    /\ pc' = "done"
               ELSE /\ pc' = "sleep"
                    /\ UNCHANGED call
    /\ UNCHANGED <<job_started, job_status, jobs>>
    /\ JobFrame

\* One round of the loop of block_on_transcript up to time.sleep: the
\* status property with its assert, then the test of what it gave.  The
\* fetch of a finished transcript gives None (the response is not 200) or
\* the recognition result.
Poll ==
    /\ pc = "poll"
    /\ IF ~job_started
       THEN /\ call' = [op |-> "block_on_transcript",
                        exc |-> "AssertionError", value |-> None]
            /\ pc' = "done"
            /\ UNCHANGED <<observed, polls>>
       ELSE /\ observed' = observed \cup {job_status}
            /\ polls' = IF polls < MaxPolls THEN polls + 1 ELSE polls
            /\ IF job_status = "FAILED"
               THEN /\ call' = [op |-> "block_on_transcript",
                                exc |-> "ValueError", value |-> None]
                    /\ pc' = "done"
               ELSE IF job_status = "COMPLETED"
               THEN /\ \E got \in {None} \cup { Some(j) : j \in SyncJsons } :
                         call' = [op |-> "block_on_transcript",
                                  exc |-> "none", value |-> got]
                    /\ pc' = "done"
               ELSE /\ pc' = "sleep"
                    /\ UNCHANGED call
    /\ UNCHANGED <<job_started, job_status, jobs>>
    /\ JobFrame

\* time.sleep(3.0) returns and the loop starts over.
Sleep ==
    /\ pc = "sleep"
    /\ pc' = "poll"
    /\ UNCHANGED <<call, jobVars, jobs>>
    /\ JobFrame

NextJob ==
    \/ JobStart
    \/ JobFromExisting
    \/ JobEnds
    \/ BlockOnTranscript
    \/ Poll
    \/ Sleep

SpecJob == InitJob /\ [][NextJob]_vars

\* The thread that called block_on_transcript keeps running: a round of the
\* loop that can be made is made, and the sleep ends.
SpecJobLive == SpecJob /\ WF_vars(Poll) /\ WF_vars(Sleep)

\* ------------------------------------------------- scripts/import_all.py
\* The names of the media files, in the order of their creation: a file is
\* named after the time of its recording.
NoteNames == 1..MaxNotes

\* sorted(...) by name: the names of a set in increasing order.
RECURSIVE SortedNames(_)
SortedNames(S) ==
    IF S = {} THEN <<>>
    ELSE LET least == CHOOSE n \in S : \A m \in S : n <= m
         IN  <<least>> \o SortedNames(S \ {least})

\* A saved note, and the files of a name.
SavedNote(note_status, note_transcript, note_path) ==
    [status |-> note_status, transcript |-> note_transcript,
     path |-> note_path]
Files(in_ingress, in_archive, in_bucket) ==
    [ingress |-> in_ingress, archive |-> in_archive, s3 |-> in_bucket]

\* What import_all finds of a name: a new recording in the ingress
\* directory; a note an earlier run left at S3; or a note already in Notion
\* whose file is in the ingress directory again.
FoundNotes ==
    { [saved |-> None, files |-> Files(TRUE, FALSE, FALSE)],
      [saved |-> Some(SavedNote(S3, None, "archive")),
       files |-> Files(FALSE, TRUE, TRUE)],
      [saved |-> Some(SavedNote(Notion, Some(TurnsJson(2)), "archive")),
       files |-> Files(TRUE, TRUE, TRUE)] }

\* The start of import_all: the names of the database are read and the
\* files of the ingress directory sorted.
InitImport ==
    /\ segments = <<>>
    /\ n_speakers = 0
    /\ segment_index = 0
    /\ next_timestamp = TimestampEvery
    /\ items = <<>>
    /\ ntok = 0
    /\ call = [op |-> "init", exc |-> "none"]
    /\ status = Ingress
    /\ transcript = None
    /\ file = TRUE
    /\ pc = "idle"
    /\ built = <<>>
    /\ t = 0
    /\ block = None
    /\ path = "ingress"
    /\ db = None
    /\ ingress_file = FALSE
    /\ archive_file = FALSE
    /\ s3_object = FALSE
    /\ uploads = 0
    /\ jobs = 0
    /\ page = 0
    /\ nsync = 0
    /\ nreset = 0
    /\ pages = <<>>
    /\ query_date = None
    /\ NoJob
    /\ \E found \in [NoteNames -> FoundNotes] :
         /\ store = [n \in NoteNames |-> found[n].saved]
         /\ fs = [n \in NoteNames |-> found[n].files]
         /\ queue = SortedNames({ n \in NoteNames : found[n].files.ingress })
    /\ phase = "new"
    /\ cur = 0
    /\ appended = <<>>

\* The note of the loop is taken up: its fields and the files of its name.
TakeUp(n, note) ==
    /\ cur' = n
    /\ queue' = Tail(queue)
    /\ status' = note.status
    /\ transcript' = note.transcript
    /\ path' = note.path
    /\ db' = store[n]
    /\ ingress_file' = fs[n].ingress
    /\ archive_file' = fs[n].archive
    /\ s3_object' = fs[n].s3
    /\ pc' = "cache_local"
    /\ call' = [op |-> "synchronize", exc |-> "none"]
    /\ UNCHANGED <<store, fs, phase, appended>>

\* What a step of the loops of import_all leaves alone.
ImportFrame == UNCHANGED <<segments, n_speakers, segment_index,
                           next_timestamp, items, ntok, file, built, t,
                           block, uploads, jobs, page, nsync, nreset, pages,
                           query_date, jobVars>>

\* A round of the first loop: the file of a name the database has is
\* removed; of any other file a VoiceNote is made and synchronized.
ImportNew ==
    /\ phase = "new" /\ pc = "idle" /\ cur = 0
    /\ queue # <<>>
    /\ LET n == Head(queue)
       IN  IF store[n] # None
           THEN /\ fs' = [fs EXCEPT ![n].ingress = FALSE]
                /\ queue' = Tail(queue)
                /\ call' = [op |-> "skip", exc |-> "none"]
                /\ UNCHANGED <<store, phase, cur, appended, status,
                               transcript, path, db, ingress_file,
                               archive_file, s3_object, pc>>
           ELSE TakeUp(n, SavedNote(Ingress, None, "ingress"))
    /\ ImportFrame

\* The first loop is over: the notes of the database are read and sorted
\* by name.
ImportReadDb ==
    /\ phase = "new" /\ pc = "idle" /\ cur = 0
    /\ queue = <<>>
    /\ phase' = "previous"
    /\ queue' = SortedNames({ n \in NoteNames : store[n] # None })
    /\ call' = [op |-> "db", exc |-> "none"]
    /\ UNCHANGED <<store, fs, cur, appended, status, transcript, path, db,
                   ingress_file, archive_file, s3_object, pc>>
    /\ ImportFrame

\* A round of the second loop: item.synchronize(global_config).
ImportPrevious ==
    /\ phase = "previous" /\ pc = "idle" /\ cur = 0
    /\ queue # <<>>
    /\ TakeUp(Head(queue), store[Head(queue)][1])
    /\ ImportFrame

\* synchronize has returned or raised, and the loop goes on: the database
\* holds the note as the last bump_status saved it, the files are where the
\* steps left them, and Notion has the block of the note if add_to_notion
\* appended it.
ImportContinue ==
    /\ pc = "idle" /\ cur # 0
    /\ store' = [store EXCEPT ![cur] =
                   IF db = None THEN @
                   ELSE Some(SavedNote(db[1], transcript, path))]
    /\ fs' = [fs EXCEPT ![cur] =
                Files(ingress_file, archive_file, s3_object)]
    /\ appended' = IF call.op = "add_to_notion" /\ call.returned
                   THEN Append(appended, cur) ELSE appended
    /\ cur' = 0
    /\ UNCHANGED <<phase, queue, call, status, transcript, path, db,
                   ingress_file, archive_file, s3_object, pc>>
    /\ ImportFrame

NextImport ==
    \/ ImportNew
    \/ ImportReadDb
    \/ ImportPrevious
    \/ ImportContinue
    \/ CacheLocal
    \/ UploadToS3
    \/ TranscribeOnS3
    \/ AddToNotion

SpecImport == InitImport /\ [][NextImport]_vars

\* ------------------------------------------------------------ shorthands
\* A step of IAdd, and one whose __iadd__ returned normally.
IAddStep == ntok' = ntok + 1
IAddDone == IAddStep /\ call'.exc = "none"

\* The segment the cursor is on (segment_index is 0-based).
CurrentSegment == segments[segment_index + 1]

\* The TextItems of a list that hold the piece c, and how often a text holds it.
Holders(its, c) ==
    { i \in DOMAIN its :
        IsText(its[i]) /\ \E j \in DOMAIN its[i].text : its[i].text[j] = c }
Occurrences(text, c) == Cardinality({ j \in DOMAIN text : text[j] = c })

\* -------------------------------------------------------------------- C1
\* C1: over any sequence of appends on one transcript the segment cursor
\* never decreases: after each append it is at least what it was before.
C1_CursorNeverDecreases == [][segment_index' >= segment_index]_vars

\* C1 witness: an append that returned normally has moved the cursor.
C1_Witness ==
    /\ call.op = "iadd" /\ call.exc = "none"
    /\ ntok >= 2
    /\ segment_index > 0

\* -------------------------------------------------------------------- C2
\* The tokens __iadd__ has added so far: the last one is missing when the
\* call raised.
Added == IF call.op = "iadd" /\ Raised THEN 1..(ntok - 1) ELSE 1..ntok

\* Every added token's content is held by exactly one TextItem, once.
EachTokenOnce ==
    \A k \in Added :
      LET hw == Holders(items, Content(k, "pronunciation"))
          hp == Holders(items, Content(k, "punctuation"))
      IN  /\ Cardinality(hw \cup hp) = 1
          /\ \A i \in hw \cup hp :
               Occurrences(items[i].text, Content(k, "pronunciation"))
                 + Occurrences(items[i].text, Content(k, "punctuation")) = 1

\* C2: a non-punctuation token that is appended is attributed to the first
\* segment at or after the previous cursor whose end time is not strictly
\* less than the token's start time, and its text is held by exactly one
\* TextItem, which carries that segment's speaker and index; every token
\* appended so far is held by exactly one TextItem of the item list.
C2_TokenAttribution ==
    [][ IAddDone =>
          /\ call'.token.type # "punctuation" =>
               /\ segment_index' >= segment_index
               /\ segments[segment_index' + 1].end_time >= call'.token.start_time[1]
               /\ \A j \in segment_index..(segment_index' - 1) :
                    segments[j + 1].end_time < call'.token.start_time[1]
               /\ \E i \in DOMAIN items' :
                    /\ Holders(items', call'.token.content) = {i}
                    /\ items'[i].speaker
                         = segments[segment_index' + 1].speaker_label
                    /\ items'[i].segment_index
                         = segments[segment_index' + 1].index
          /\ EachTokenOnce' ]_vars

\* C2 witness: a word token was attributed to the second segment after an
\* earlier token was added under the first.
C2_Witness ==
    /\ call.op = "iadd" /\ call.exc = "none"
    /\ call.token.type # "punctuation"
    /\ ntok >= 2
    /\ segment_index = 1
    /\ Last(items).segment_index = 1
    /\ \E i \in DOMAIN items : IsText(items[i]) /\ items[i].segment_index = 0

\* -------------------------------------------------------------------- C3
\* C3: when a non-punctuation token starts after the end of every segment
\* from the cursor on, the append raises instead of returning, and the
\* item list is left as it was: the token's text is in no item.
C3_UncoveredTokenRaises ==
    [][ ( /\ IAddStep
          /\ call'.token.type # "punctuation"
          /\ call'.token.start_time # None
          /\ \A j \in segment_index..(Len(segments) - 1) :
               segments[j + 1].end_time < call'.token.start_time[1] )
        => ( /\ call'.exc # "none"
             /\ items' = items
             /\ Holders(items', call'.token.content) = {} ) ]_vars

\* C3 witness: after some tokens were added, a word token past the last
\* segment made the append raise.
C3_Witness ==
    /\ call.op = "iadd" /\ call.exc = "IndexError"
    /\ call.token.type # "punctuation" /\ call.token.start_time # None
    /\ segments # <<>>
    /\ items # <<>>
    /\ segment_index = Len(segments)

\* -------------------------------------------------------------------- C4
\* C4: building and rendering a transcript from an input with speakers=0
\* and no segments, with or without tokens, signals NoSpeakersException
\* and never an IndexError.
C4_NoSpeechSignalled ==
    ( /\ n_speakers = 0 /\ segments = <<>>
      /\ call.op \in {"iadd", "to_block"} )
    => call.exc = "NoSpeakersException"

\* -------------------------------------------------------------------- C5
NumStamps(its) == Cardinality({ i \in DOMAIN its : ~IsText(its[i]) })

\* The input of the example: one segment of 100 s, four words starting at
\* 10, 30, 65 and 70 s.
ExampleJson ==
    [speakers |-> 1,
     segments |-> <<AWSSegment(0, 0, Sec(100), "S0")>>,
     items |-> [k \in 1..4 |->
                  AWSTranscriptItem("pronunciation",
                                    Some(Sec(<<10, 30, 65, 70>>[k])),
                                    Content(k, "pronunciation"))]]

\* Exactly one Timestamp, of 65 s, directly before the TextItem that starts
\* with the third token, which no earlier item holds.
ExampleStamped ==
    LET r == from_aws_transcribe_json(ExampleJson)
        its == r.t.items
    IN  /\ r.exc = "none"
        /\ NumStamps(its) = 1
        /\ \E p \in 1..(Len(its) - 1) :
             /\ its[p] = [kind |-> "Timestamp", delta |-> 65]
             /\ IsText(its[p + 1])
             /\ its[p + 1].text[1] = "w3"
             /\ Holders(its, "w3") = {p + 1}
             /\ Holders(its, "w4") = {p + 1}
             /\ Holders(its, "w1") \cup Holders(its, "w2") \subseteq 1..(p - 1)

\* C5: an append that returns adds a Timestamp if and only if the token has
\* a start time strictly greater than next_timestamp; the Timestamp then
\* stands directly before the TextItem that receives the token's text, holds
\* the start time floored to whole seconds, and next_timestamp grows by
\* exactly timestamp_every; otherwise next_timestamp is unchanged.  Interval
\* 60 and start times 10, 30, 65, 70 give one Timestamp, before the token
\* at 65.
C5_TimestampInsertion ==
    [][ /\ ExampleStamped
        /\ IAddDone =>
             LET over == /\ call'.token.start_time # None
                         /\ call'.token.start_time[1] > Sec(next_timestamp)
                 n == Len(items')
             IN  /\ over =>
                       /\ NumStamps(items') = NumStamps(items) + 1
                       /\ n = Len(items) + 2
                       /\ SubSeq(items', 1, Len(items)) = items
                       /\ ~IsText(items'[n - 1])
                       /\ items'[n - 1].delta * TicksPerSecond
                            <= call'.token.start_time[1]
                       /\ (items'[n - 1].delta + 1) * TicksPerSecond
                            > call'.token.start_time[1]
                       /\ IsText(items'[n])
                       /\ items'[n].text = <<call'.token.content>>
                       /\ next_timestamp' = next_timestamp + TimestampEvery
                 /\ ~over =>
                       /\ NumStamps(items') = NumStamps(items)
                       /\ next_timestamp' = next_timestamp ]_vars

\* C5 witness: a token that starts between two whole seconds got its
\* Timestamp, after an earlier token got none.
C5_Witness ==
    /\ call.op = "iadd" /\ call.exc = "none"
    /\ call.token.start_time = Some(Sec(65) + 1)
    /\ Len(items) = 3
    /\ IsText(items[1])
    /\ items[2] = [kind |-> "Timestamp", delta |-> 65]
    /\ next_timestamp = 2 * TimestampEvery

\* -------------------------------------------------------------------- C6
\* C6: an append merges the token into the last item if and only if the
\* list, at that point of the append, is not empty and ends with a TextItem
\* of the token's effective speaker and effective segment index; otherwise
\* it appends a new TextItem of the token's text, effective speaker and
\* effective segment index.  Either way the items before the last one stay
\* as they were.
C6_MergeOrNewRun ==
    [][ IAddDone =>
          LET seg == segments[segment_index' + 1]
              mid == IF Len(items') = Len(items) THEN items
                     ELSE Front(items')
              fits == /\ mid # <<>>
                      /\ IsText(Last(mid))
                      /\ Last(mid).speaker = seg.speaker_label
                      /\ Last(mid).segment_index = seg.index
          IN  /\ \/ mid = items
                 \/ /\ Len(mid) = Len(items) + 1
                    /\ Front(mid) = items
                    /\ ~IsText(Last(mid))
              /\ fits =>
                   /\ Len(items') = Len(mid)
                   /\ Front(items') = Front(mid)
                   /\ IsText(Last(items'))
                   /\ Len(Last(items').text) > Len(Last(mid).text)
                   /\ SubSeq(Last(items').text, 1, Len(Last(mid).text))
                        = Last(mid).text
                   /\ Last(Last(items').text) = call'.token.content
              /\ ~fits =>
                   items' = Append(mid, TextItem(<<call'.token.content>>,
                                                 seg.speaker_label, seg.index))
              /\ \A i \in 1..(Len(items) - 1) : items'[i] = items[i] ]_vars

\* C6 witness: one token was merged into the last TextItem and a later one,
\* of the same speaker in the next segment, started a new TextItem.
C6_Witness ==
    /\ call.op = "iadd" /\ call.exc = "none"
    /\ Len(items) = 2
    /\ IsText(items[1]) /\ IsText(items[2])
    /\ Len(items[1].text) > 1
    /\ items[1].speaker = items[2].speaker
    /\ items[1].segment_index # items[2].segment_index

\* -------------------------------------------------------------------- C7
\* C7: when a token is merged into a TextItem, the new text is the old text
\* directly followed by the content of a punctuation token, or by one space
\* and the content of a word token; speaker and segment index stay.
C7_MergeText ==
    [][ (IAddDone /\ Len(items') = Len(items)) =>
          LET old == Last(items)
              new == Last(items')
          IN  /\ new.text = old.text
                    \o (IF call'.token.type = "punctuation" THEN <<call'.token.content>>
                        ELSE <<" ", call'.token.content>>)
              /\ new.speaker = old.speaker
              /\ new.segment_index = old.segment_index ]_vars

\* C7 witness: a punctuation token and then a word token were merged into
\* the same TextItem.
C7_Witness ==
    /\ call.op = "iadd" /\ call.exc = "none"
    /\ Len(items) = 1
    /\ items[1].text = <<"w1", "p2", " ", "w3">>

\* -------------------------------------------------------------------- C8
RECURSIVE Flatten(_)
Flatten(groups) ==
    IF groups = <<>> THEN <<>> ELSE groups[1] \o Flatten(SubSeq(groups, 2, Len(groups)))

\* The index at which group k starts in the item list.
RECURSIVE GroupStart(_, _)
GroupStart(groups, k) ==
    IF k = 1 THEN 1 ELSE GroupStart(groups, k - 1) + Len(groups[k - 1])

\* The TextItems whose speaker differs from that of the nearest TextItem
\* before them.
SpeakerChanges(its) ==
    { i \in DOMAIN its :
        /\ IsText(its[i])
        /\ \E j \in 1..(i - 1) :
             /\ IsText(its[j])
             /\ \A m \in (j + 1)..(i - 1) : ~IsText(its[m])
             /\ its[j].speaker # its[i].speaker }

ExampleItems ==
    <<TextItem(<<"a">>, "S0", 0), [kind |-> "Timestamp", delta |-> 65],
      TextItem(<<"b">>, "S0", 0), TextItem(<<"c">>, "S1", 1)>>

\* C8: items_by_speaker returns contiguous pieces of the item list that
\* concatenate to it; a group after the first starts exactly at each
\* TextItem whose speaker differs from that of the nearest TextItem before
\* it, so never at a Timestamp.  [T(S0), Timestamp, T(S0), T(S1)] gives
\* [[T(S0), Timestamp, T(S0)], [T(S1)]].
C8_Grouping ==
    /\ items_by_speaker(ExampleItems)
         = <<SubSeq(ExampleItems, 1, 3), SubSeq(ExampleItems, 4, 4)>>
    /\ call.op = "items_by_speaker" =>
         LET groups == call.value
         IN  /\ Flatten(groups) = items
             /\ Len(groups) = Cardinality(SpeakerChanges(items)) + 1
             /\ { GroupStart(groups, k) : k \in 2..Len(groups) }
                  = SpeakerChanges(items)
             /\ \A k \in 2..Len(groups) : IsText(groups[k][1])

\* C8 witness: the grouping of a list with a Timestamp inside the first
\* group and a speaker change after it.
C8_Witness ==
    /\ call.op = "items_by_speaker"
    /\ Len(call.value) = 2
    /\ Len(call.value[1]) = 3
    /\ ~IsText(call.value[1][2])
    /\ Len(items) = 4

NumGroups(its) == Cardinality(SpeakerChanges(its)) + 1

C11_PunctuationKeepsCursor ==
    [][ (IAddStep /\ call'.token.type = "punctuation") =>
          /\ segment_index' = segment_index
          /\ call'.exc = "none" =>
               \E i \in DOMAIN items' :
                 /\ Holders(items', call'.token.content) = {i}
                 /\ items'[i].speaker = CurrentSegment.speaker_label
                 /\ items'[i].segment_index = CurrentSegment.index ]_vars

\* C11 witness: a punctuation token that starts after the end of the
\* current segment, which is not the last one, was added under it.
C11_Witness ==
    /\ call.op = "iadd" /\ call.exc = "none"
    /\ call.token.type = "punctuation"
    /\ call.token.start_time # None
    /\ Len(segments) = 2
    /\ segment_index = 0
    /\ CurrentSegment.end_time < call.token.start_time[1]
    /\ Last(items).segment_index = 0

\* ------------------------------------------------------------------- C12
\* C12: appending a word token whose start time is missing or zero, on a
\* transcript whose cursor is on a segment, completes without an exception,
\* leaves the cursor where it was, adds no Timestamp, and puts the token's
\* text under the current segment.
C12_MissingStartTolerated ==
    [][ ( /\ IAddStep
          /\ call'.token.type # "punctuation"
          /\ call'.token.start_time \in {None, Some(0)}
          /\ segment_index < Len(segments) )
        => ( /\ call'.exc = "none"
             /\ segment_index' = segment_index
             /\ NumStamps(items') = NumStamps(items)
             /\ \E i \in DOMAIN items' :
                  /\ Holders(items', call'.token.content) = {i}
                  /\ items'[i].speaker = CurrentSegment.speaker_label
                  /\ items'[i].segment_index = CurrentSegment.index ) ]_vars

\* ------------------------------------------------------------------- C13
\* The visible text of the rich-text nodes of one block, in order.
RECURSIVE NodesText(_, _)
NodesText(nodes, i) ==
    IF i > Len(nodes) THEN <<>>
    ELSE nodes[i].content \o NodesText(nodes, i + 1)

\* The visible text of the blocks from block k on, one line per block.
RECURSIVE BlocksText(_, _)
BlocksText(blocks, k) ==
    IF k > Len(blocks) THEN <<>>
    ELSE NodesText(blocks[k].text, 1)
           \o (IF k = Len(blocks) THEN <<>>
               ELSE <<"\n">> \o BlocksText(blocks, k + 1))

\* A text with its runs of spaces made one space and the spaces at the
\* ends of its lines dropped; prev is the piece before piece i.
RECURSIVE NormalizeSpaces(_, _, _)
NormalizeSpaces(text, i, prev) ==
    IF i > Len(text) THEN <<>>
    ELSE IF text[i] = " "
              /\ ( \/ prev \in {" ", ": ", "\n", ""}
                   \/ \A j \in i..Len(text) : text[j] = " "
                   \/ \E j \in (i + 1)..Len(text) :
                        /\ text[j] = "\n"
                        /\ \A n \in i..(j - 1) : text[n] = " " )
         THEN NormalizeSpaces(text, i + 1, prev)
         ELSE <<text[i]>> \o NormalizeSpaces(text, i + 1, text[i])

\* C13: for a transcript built by append, the visible text of the rich-text
\* nodes of the per-group blocks of to_block, one line per group, with runs
\* of spaces normalized, is the text of to_string() normalized the same way.
C13_RoundTrip ==
    (call.op \in {"to_block", "to_string"} /\ call.exc = "none") =>
      LET blocks == IF call.op = "to_block" THEN call.value.children
                    ELSE Transcript_to_block(items, <<>>).value.children
          string == IF call.op = "to_string" THEN call.value
                    ELSE Transcript_to_string(items).value
      IN  NormalizeSpaces(BlocksText(blocks, 1), 1, "")
            = NormalizeSpaces(string, 1, "")

\* ------------------------------------------------------------------- C14
\* The nodes of a block text that are not the " " and ": " put between
\* the label and the items.
IsItemNode(node) == node.content \notin {<<" ">>, <<": ">>}

\* Whether kids are the blocks of the groups, one per group and in order:
\* each starts with the bold label of the group's first TextItem and then
\* holds, in item order, a plain node for every TextItem and a code node
\* for every Timestamp.
RendersGroups(kids, groups) ==
    /\ Len(kids) = Len(groups)
    /\ \A k \in DOMAIN groups :
         LET g == groups[k]
             nodes == SelectSeq(SubSeq(kids[k].text, 2, Len(kids[k].text)),
                                IsItemNode)
         IN  /\ kids[k].type = "paragraph"
             /\ kids[k].children = <<>>
             /\ kids[k].text[1]
                  = [style |-> "bold",
                     content |-> <<g[CHOOSE i \in DOMAIN g :
                                       /\ IsText(g[i])
                                       /\ \A j \in 1..(i - 1) : ~IsText(g[j])
                                    ].speaker>>]
             /\ Len(nodes) = Len(g)
             /\ \A i \in DOMAIN g :
                  IF IsText(g[i])
                  THEN nodes[i] = [style |-> "plain", content |-> g[i].text]
                  ELSE /\ nodes[i].style = "code"
                       /\ nodes[i].content = <<Timestamp_str(g[i])>>

\* The groups of an item list, cut where the speaker changes: group k
\* runs from the k-th smallest start to just before the next one.
SplitAtChanges(its) ==
    LET starts == {1} \cup SpeakerChanges(its)
        start(k) == IF k > Cardinality(starts) THEN Len(its) + 1
                    ELSE CHOOSE s \in starts :
                           Cardinality({ x \in starts : x < s }) = k - 1
    IN  [k \in 1..Cardinality(starts) |->
           SubSeq(its, start(k), start(k + 1) - 1)]

\* C14: Transcript.to_block returns one titled block whose children are one
\* block per group of items_by_speaker(), in group order, each starting
\* with the bold speaker label of the group's first TextItem and holding,
\* in item order, a plain node for every TextItem and a code node for every
\* Timestamp; with file=True VoiceNote.to_block returns that block with the
\* link block as first child and the group blocks after it in the same
\* order.
C14_BlockStructure ==
    /\ (call.op = "to_block" /\ call.exc = "none") =>
         /\ call.value.type = "paragraph"
         /\ call.value.text = <<RichText_bold(<<"title">>)>>
         /\ RendersGroups(call.value.children, SplitAtChanges(items))
    /\ pc = "done" =>
         LET b == block[1]
             groups == IF built[t].settings.break_speakers
                       THEN SplitAtChanges(built[t].items)
                       ELSE <<built[t].items>>
         IN  /\ b.type = "paragraph"
             /\ b.text = <<RichText_bold(<<"name">>)>>
             /\ IF file
                THEN /\ b.children # <<>>
                     /\ b.children[1].text[1].style = "link"
                     /\ b.children[1].children = <<>>
                     /\ RendersGroups(Tail(b.children), groups)
                ELSE RendersGroups(b.children, groups)

\* C14 witness: VoiceNote.to_block with file=True returned a block whose
\* first child is the link and whose other children are the blocks of
\* several groups, one of them with a Timestamp.
C14_Witness ==
    /\ pc = "done"
    /\ file
    /\ Len(block[1].children) > 3
    /\ block[1].children[1].text[1].style = "link"
    /\ \E k \in 2..Len(block[1].children) :
         \E i \in DOMAIN block[1].children[k].text :
           block[1].children[k].text[i].style = "code"

\* ------------------------------------------------------------------- C15
\* The append of this step follows the append of another token that has
\* the same effective speaker and the same effective segment index: the
\* last item is the TextItem that holds the token appended before.
SameRunAsBefore ==
    /\ IAddDone
    /\ ntok >= 1
    /\ items # <<>>
    /\ Last(items).speaker = segments[segment_index' + 1].speaker_label
    /\ Last(items).segment_index = segments[segment_index' + 1].index

\* The token of this step went into the TextItem that holds the token
\* appended before it.
JoinedLastRun ==
    /\ Len(items') = Len(items)
    /\ Holders(items', call'.token.content) = {Len(items)}
    /\ Holders(items', Last(Last(items).text)) = {Len(items)}

\* C15 as stated: two tokens appended one directly after the other with the
\* same effective speaker and the same effective segment index end up in
\* the same TextItem of the item list.
C15_MaximalRuns == [][ SameRunAsBefore => JoinedLastRun ]_vars

\* C15 amended: two such tokens end up in the same TextItem unless the
\* second one starts after next_timestamp; then a Timestamp is put between
\* them and the second token starts a new TextItem of the same speaker and
\* segment index directly after the Timestamp.
C15_MaximalRunsBetweenStamps ==
    [][ SameRunAsBefore =>
          IF /\ call'.token.start_time # None
             /\ call'.token.start_time[1] > Sec(next_timestamp)
          THEN /\ Len(items') = Len(items) + 2
               /\ SubSeq(items', 1, Len(items)) = items
               /\ ~IsText(items'[Len(items) + 1])
               /\ Last(items') = TextItem(<<call'.token.content>>,
                                          Last(items).speaker,
                                          Last(items).segment_index)
          ELSE JoinedLastRun ]_vars

\* C15 witness: two tokens of one speaker and one segment, appended one
\* after the other, stand in two TextItems with a Timestamp between them.
C15_Witness ==
    /\ call.op = "iadd" /\ call.exc = "none"
    /\ ntok = 2
    /\ Len(items) = 3
    /\ IsText(items[1]) /\ ~IsText(items[2]) /\ IsText(items[3])
    /\ items[1].speaker = items[3].speaker
    /\ items[1].segment_index = items[3].segment_index

\* ------------------------------------------------------------------- C16
\* A step of a synchronize call: its start, or one of its four methods.
SyncStep == nsync' # nsync \/ pc # "idle"

\* A step of add_to_notion in which self.to_block() raised exc.
AddToNotionRaised(exc) ==
    /\ pc = "add_to_notion"
    /\ call'.op = "add_to_notion"
    /\ call'.render = exc

C17_FinishedNoteUntouched ==
    /\ [][ (status \in {Notion, Evicted} /\ SyncStep) =>
             UNCHANGED <<status, transcript, db, path, ingress_file,
                         archive_file, s3_object, uploads, jobs, page>> ]_vars
    /\ [](nreset = 0 => page <= 1)

\* C17 witness: a note that an earlier synchronize call added to Notion
\* went through a whole later synchronize call.
C17_Witness ==
    /\ pc = "idle"
    /\ call.op = "add_to_notion" /\ call.render = "skipped"
    /\ nsync >= 2
    /\ nreset = 0
    /\ status = Notion
    /\ page = 1

\* ------------------------------------------------------------------- C18
\* C18: upload_to_s3 moves a note from Local to S3 only if the upload to
\* the bucket succeeded; after a ClientError the status stays Local, so
\* that a note of status S3 is in the bucket.
C18_S3MeansUploaded ==
    [][ (pc = "upload_to_s3" /\ status = Local) =>
          /\ status' = S3 <=> call'.uploaded
          /\ ~call'.uploaded => status' = Local
          /\ status' = S3 => s3_object' ]_vars

\* ------------------------------------------------------------------- C20
\* C20: the attach-transcript action of item.py without --job reports a
\* usage error and attaches nothing, and with --job calls
\* attach_existing_transcript with that job name.
C20_JobRequired ==
    call.op = "item.py" =>
      /\ call.job = None =>
           /\ call.exc = "SystemExit"
           /\ call.attached = "no call"
      /\ call.job # None =>
           /\ call.attached = call.job
           /\ call.exc # "SystemExit"

\* ------------------------------------------------------------------- C19
\* The monthly pages of the query date's year and month among the results.
MonthlyPagesOf(results, d) ==
    { i \in DOMAIN results : results[i].plain_text_title = MonthlyTitle(d) }

\* C19: get_monthly_page_id returns the id of the monthly journal page of
\* exactly the query date's year and month, or None when no such page is
\* among the search results; a monthly page of another month is never
\* returned and never makes the uniqueness assertion fail.
C19_MonthlyPageOfTheMonth ==
    call.op = "get_monthly_page_id" =>
      LET mine == MonthlyPagesOf(pages, query_date)
      IN  /\ Cardinality(mine) < 2 => call.exc = "none"
          /\ (call.exc = "none" /\ mine = {}) => call.value = None
          /\ (call.exc = "none" /\ mine # {}) =>
               \E i \in mine : call.value = Some(pages[i].id)

\* ------------------------------------------------------------------- C21
\* C21: over a run of import_all, new-item loop and then the loop over the
\* notes imported before, the notes are appended to Notion in the order of
\* their names: of two notes that both get their block appended, the one of
\* the smaller name is appended first.
C21_AppendedInNameOrder ==
    \A i, j \in DOMAIN appended : i < j => appended[i] < appended[j]

\* ------------------------------------------------------------------- C22
\* The status the decorator of a method sets; the scripts call
\* attach_existing_transcript.
BumpTarget(op) ==
    CASE op = "cache_local" -> Local
      [] op = "upload_to_s3" -> S3
      [] op = "transcribe_on_s3" -> Transcribed
      [] op = "add_to_notion" -> Notion
      [] op = "reset_transcript" -> S3
      [] op \in {"attach_transcript.py", "item.py"} -> Transcribed

\* C22: a step under bump_status(X) sets the status to X and saves the note
\* if and only if the wrapped method returned a true value; when it
\* returned without success or raised, the decorator changes neither the
\* status nor the saved record (the only change then is the eviction that
\* add_to_notion makes itself).
C22_BumpOnSuccessOnly ==
    [][ call'.op # "synchronize" =>
          /\ call'.exc # "none" => ~call'.returned
          /\ call'.returned =>
               /\ status' = BumpTarget(call'.op)
               /\ db' = Some(BumpTarget(call'.op))
          /\ ~call'.returned =>
               \/ status' = status /\ db' = db
               \/ /\ call'.op = "add_to_notion"
                  /\ call'.render = "NoSpeakersException"
                  /\ status' = Evicted /\ db' = Some(Evicted) ]_vars

\* C22 witness: transcribe_on_s3 started a job, the fetch of the transcript
\* gave None, and the note is still at S3, saved as such.
C22_Witness ==
    /\ call.op = "transcribe_on_s3"
    /\ call.exc = "none" /\ ~call.returned
    /\ jobs >= 1
    /\ status = S3 /\ db = Some(S3)
    /\ transcript = None

\* ------------------------------------------------------------------- C23
\* C23: the status of a note changes only from Ingress to Local by
\* cache_local, from Local to S3 by upload_to_s3, from S3 to Transcribed by
\* transcribe_on_s3 or attach_existing_transcript, from Transcribed to
\* Notion or Evicted by add_to_notion, and from a status above S3 back to S3
\* by reset_transcript.
C23_StatusTransitions ==
    [][ status' # status =>
          \/ call'.op = "cache_local" /\ status = Ingress /\ status' = Local
          \/ call'.op = "upload_to_s3" /\ status = Local /\ status' = S3
          \/ /\ call'.op \in {"transcribe_on_s3", "attach_transcript.py",
                              "item.py"}
             /\ status = S3 /\ status' = Transcribed
          \/ /\ call'.op = "add_to_notion"
             /\ status = Transcribed /\ status' \in {Notion, Evicted}
          \/ call'.op = "reset_transcript" /\ status > S3 /\ status' = S3
      ]_vars

\* C23 witness: a note that was added to Notion, reset, and transcribed
\* again, this time without speech, is evicted.
C23_Witness ==
    /\ status = Evicted
    /\ nreset = 1
    /\ page = 1
    /\ call.op = "add_to_notion"

\* ------------------------------------------------------------------- C24
\* A round of the loop of block_on_transcript.
PollStep == pc = "poll" /\ pc' # "poll"

\* C24: block_on_transcript returns only after it has read the status
\* COMPLETED, raises ValueError when it reads FAILED, and neither returns
\* nor raises as long as every status it has read is IN_PROGRESS; on a job
\* that is not started it fails its assert before it reads a status.
C24_ReturnsOnlyWhenCompleted ==
    [][ PollStep =>
          /\ ~job_started =>
               /\ pc' = "done" /\ call'.exc = "AssertionError"
               /\ observed' = observed
          /\ job_started =>
               /\ (pc' = "done" /\ call'.exc = "none")
                    => "COMPLETED" \in observed'
               /\ "FAILED" \in observed'
                    => (pc' = "done" /\ call'.exc = "ValueError")
               /\ observed' \subseteq {"IN_PROGRESS"}
                    => (pc' = "sleep" /\ call' = call) ]_vars

\* C24 witness: block_on_transcript has returned the transcript of a job
\* it started, after reading IN_PROGRESS and then COMPLETED.
C24_Witness ==
    /\ pc = "done"
    /\ call.op = "block_on_transcript" /\ call.exc = "none"
    /\ call.value # None
    /\ jobs = 1
    /\ observed = {"IN_PROGRESS", "COMPLETED"}
    /\ polls >= 2

\* ------------------------------------------------------------------- C25
\* block_on_transcript is in its loop.
InLoop == pc \in {"poll", "sleep"}

\* C25: once the job is COMPLETED or FAILED, a block_on_transcript that is
\* in its loop ends, by returning or by raising; it stays in the loop for
\* ever only if the job stays IN_PROGRESS for ever.
C25_TerminatesWhenJobEnds ==
    /\ (InLoop /\ job_status \in {"COMPLETED", "FAILED"}) ~> (pc = "done")
    /\ <>[]InLoop => <>[](job_status = "IN_PROGRESS")

\* C25 witness: block_on_transcript has raised for a job that failed
\* while it was polled.
C25_Witness ==
    /\ pc = "done"
    /\ call.op = "block_on_transcript" /\ call.exc = "ValueError"
    /\ observed = {"IN_PROGRESS", "FAILED"}
    /\ polls >= 3

\* ------------------------------------------------------------------- C26
\* C26: a note of status Transcribed, Notion or Evicted has a transcript,
\* and a note of status Ingress, Local or S3 has none.
C26_TranscriptIffTranscribed ==
    /\ status \in {Ingress, Local, S3, Transcribed, Notion, Evicted}
    /\ status \in {Transcribed, Notion, Evicted} <=> transcript # None

\* C26 witness: reset_transcript has put a transcribed note back to S3.
C26_Witness ==
    /\ call.op = "reset_transcript" /\ call.exc = "none"
    /\ status = S3
    /\ transcript = None
    /\ jobs >= 1

\* ------------------------------------------------------------------- C27
\* C27: after every append that returned the item list is not empty and its
\* last item is a TextItem, and the item list never holds two Timestamps
\* next to each other.
C27_EndsWithTextNoStampPair ==
    /\ (call.op = "iadd" /\ call.exc = "none") => items # <<>>
    /\ items # <<>> => IsText(Last(items))
    /\ \A i \in 1..(Len(items) - 1) : IsText(items[i]) \/ IsText(items[i + 1])

\* C27 witness: two appends in a row each put a Timestamp, and the list
\* ends with the text of the second.
C27_Witness ==
    /\ call.op = "iadd" /\ call.exc = "none"
    /\ NumStamps(items) = 2
    /\ Len(items) >= 4
    /\ ~IsText(items[Len(items) - 1])
    /\ ~IsText(items[Len(items) - 3])

\* ------------------------------------------------------------------- C28
\* C28: in every item list the segment indices of the TextItems do not
\* decrease in list order, the speaker of each TextItem is the speaker label
\* of the segment of its segment index, and two TextItems that stand next to
\* each other have different segment indices.
C28_RunsFollowSegments ==
    /\ \A i, j \in DOMAIN items :
         (i < j /\ IsText(items[i]) /\ IsText(items[j]))
           => items[i].segment_index <= items[j].segment_index
    /\ \A i \in DOMAIN items :
         IsText(items[i]) =>
           /\ items[i].segment_index < Len(segments)
           /\ items[i].speaker
                = segments[items[i].segment_index + 1].speaker_label
    /\ \A i \in 1..(Len(items) - 1) :
         (IsText(items[i]) /\ IsText(items[i + 1]))
           => items[i].segment_index # items[i + 1].segment_index

\* C28 witness: a run of the second segment stands directly after a run of
\* the first, and a later run of the second segment after a Timestamp.
C28_Witness ==
    /\ call.op = "iadd" /\ call.exc = "none"
    /\ Len(items) = 4
    /\ IsText(items[1]) /\ items[1].segment_index = 0
    /\ IsText(items[2]) /\ items[2].segment_index = 1
    /\ ~IsText(items[3])
    /\ IsText(items[4]) /\ items[4].segment_index = 1

\* ------------------------------------------------------------------- C29
\* Every group holds a TextItem, the TextItems of one group have one
\* speaker, and two groups in a row have different speakers.
GroupsWellFormed(groups) ==
    /\ \A k \in DOMAIN groups :
         /\ TextItemsOf(groups[k]) # <<>>
         /\ \A i, j \in DOMAIN groups[k] :
              (IsText(groups[k][i]) /\ IsText(groups[k][j]))
                => groups[k][i].speaker = groups[k][j].speaker
    /\ \A k \in 1..(Len(groups) - 1) :
         TextItemsOf(groups[k])[1].speaker
           # TextItemsOf(groups[k + 1])[1].speaker

\* C29: on a transcript built by appending at least one token, every group
\* items_by_speaker returns holds at least one TextItem, all TextItems of a
\* group have the same speaker and two consecutive groups have different
\* speakers; to_string and to_block then do not raise.
C29_GroupsHaveSpeaker ==
    ntok >= 1 =>
      /\ call.op = "items_by_speaker" => GroupsWellFormed(call.value)
      /\ call.op \in {"to_block", "to_string"} => call.exc = "none"

\* C29 witness: items_by_speaker returned two groups, the first of which
\* starts with a Timestamp.
C29_Witness ==
    /\ call.op = "items_by_speaker"
    /\ ntok >= 2
    /\ Len(call.value) = 2
    /\ ~IsText(call.value[1][1])

\* ------------------------------------------------------------------- C30
\* The last Timestamp of an item list.
LastStamp(its) ==
    its[CHOOSE i \in DOMAIN its :
          /\ ~IsText(its[i])
          /\ \A j \in DOMAIN its : ~IsText(its[j]) => j <= i]

\* C30: the start times behind two consecutive Timestamps of the item list
\* are at least timestamp_every apart.  Checked on the first two tokens of
\* a stream, both words and in time order: when each gets a Timestamp, the
\* second starts at least timestamp_every after the whole second the
\* Timestamp of the first shows.
C30_MarkersOneIntervalApart ==
    [][ ( /\ IAddDone
          /\ ntok = 1
          /\ call.op = "iadd"
          /\ call.token.type # "punctuation"
          /\ call'.token.type # "punctuation"
          /\ call.token.start_time[1] <= call'.token.start_time[1]
          /\ NumStamps(items) = 1
          /\ NumStamps(items') = 2 )
        => call'.token.start_time[1]
             >= Sec(LastStamp(items).delta + TimestampEvery) ]_vars

====
